---- MODULE Spec2Model ----
(***************************************************************************)
(* Model of the incremental publication engine of ssg.py: the stable       *)
(* chunking of the post list (chunk_stable), the archive identifiers and   *)
(* the write-or-skip / prune reconciliation of the output tree done by     *)
(* cmd_generate.                                                           *)
(***************************************************************************)
EXTENDS Integers, Sequences, FiniteSets, TLC

(***************************************************************************)
(* Bounds of the model.                                                    *)
(***************************************************************************)
\* most posts in the source directory
MaxPosts == 13
\* the oldest posts, up to this many, are of any kind; later ones are plain
\* public posts
SpecialPosts == 1
\* most posts added between two runs
MaxAdded == 3
\* longest list handed to chunk_stable in SpecChunk
MaxItems == 14
\* largest chunk_size drawn in SpecChunk
MaxChunkSize == 5
\* largest min_size drawn in SpecChunk
MaxMinSize == 4
\* longest tag string drawn in SpecSlug
MaxTagLen == 4
\* most posts of a source directory in SpecCrash
MaxCrashPosts == 2
\* most posts of a source directory in SpecNav: enough for four chunks
MaxNavPosts == 18

VARIABLES
    \* ---- chunk_stable, run on its own (SpecChunk) ----
    items,          \* the list handed to chunk_stable
    chunk_size,     \* argument chunk_size
    min_size,       \* argument min_size
    remaining,      \* local variable of the loop
    chunks,         \* local variable of the loop, the returned list at the end
    cpc,            \* position in chunk_stable: "idle", "loop", "done"
    prev_items,     \* the list of the previous completed call
    prev_chunks,    \* the result of the previous completed call
    has_prev,       \* TRUE once a call has completed before the current one
    \* ---- cmd_generate (Spec) ----
    listing,        \* the posts of posts_src_dir, in os.listdir order
    added,          \* how many posts were added since the last run began
    archive_id_secret,  \* ssg_config['archive_id_secret']
    files,          \* regular files under gen_root: path -> [ino, bytes]
    dirs,           \* directories under gen_root, gen_root itself is <<>>
    pc,             \* position in cmd_generate
    todo,           \* operations of the run not yet performed
    existing_paths, \* line 977
    paths_written,  \* line 982
    archive_chunks, \* line 1098: [id, index, pages], newest chunk first
    handed,         \* the (path, bytes) given to write_and_record in this run
    writes,         \* the paths opened for writing in this run, in order
    deleted,        \* the files removed by the prune of this run
    removed_dirs,   \* the directories removed by os.removedirs in this run
    prev,           \* the inputs and the tree at the end of the previous run
    \* ---- tag_to_slug, run on its own (SpecSlug) ----
    tag_str,        \* the tag string, as its characters
    slug_str,       \* the value returned for it
    spc,            \* position: "idle" before the call, "returned" after it
    \* ---- cmd_generate with interruptions (SpecCrash) ----
    crashed         \* TRUE once a run over these inputs was interrupted

cvars == <<items, chunk_size, min_size, remaining, chunks, cpc,
           prev_items, prev_chunks, has_prev>>

gvars == <<listing, added, archive_id_secret, files, dirs, pc, todo, existing_paths,
           paths_written, archive_chunks, handed, writes, deleted,
           removed_dirs, prev>>

svars == <<tag_str, slug_str, spc>>

kvars == <<crashed>>

vars == <<cvars, gvars, svars, kvars>>

\* no run has been interrupted
CrashQuiet == crashed = FALSE

\* the variables of tag_to_slug while another function is run
SlugQuiet ==
    /\ tag_str = <<>>
    /\ slug_str = <<>>
    /\ spc = "idle"

(***************************************************************************)
(* chunk_stable (ssg.py 59-83)                                             *)
(***************************************************************************)

\* variant of ChunkTake: strict comparison, so a remainder of exactly
\* chunk_size + min_size items is kept in one piece
ChunkTakeStrict(rem, csize, msize) ==
    IF rem > csize + msize THEN csize ELSE rem

\* variant of ChunkTake: the minimum size of the first chunk is ignored
ChunkTakeNoMin(rem, csize, msize) ==
    IF rem >= csize THEN csize ELSE rem

\* variant of ChunkTake: nothing is taken when the first chunk is due
ChunkTakeStall(rem, csize, msize) ==
    IF rem >= csize + msize THEN csize ELSE 0

\* lines 77-80: how many items the next chunk takes
ChunkTake(rem, csize, msize) ==
    IF rem >= csize + msize THEN csize ELSE rem

\* variant of ChunkSlice: the chunk is cut from the front of the list
ChunkSliceFront(its, rem, take) ==
    SubSeq(its, Len(its) - rem + 1, Len(its) - rem + take)

\* variant of ChunkSlice: the slice starts one item late
ChunkSliceShort(its, rem, take) == SubSeq(its, rem - take + 2, rem)

\* line 81: items[remaining - take:remaining] (0-based, end exclusive)
ChunkSlice(its, rem, take) == SubSeq(its, rem - take + 1, rem)

\* lines 76-82: the while loop, from a given loop state to its end
RECURSIVE ChunkLoop(_, _, _, _, _)
ChunkLoop(its, csize, msize, rem, acc) ==
    IF rem > 0
    THEN LET take == ChunkTake(rem, csize, msize)
         IN  ChunkLoop(its, csize, msize, rem - take,
                       <<ChunkSlice(its, rem, take)>> \o acc)
    ELSE acc

\* lines 59-83
chunk_stable(its, csize, msize) == ChunkLoop(its, csize, msize, Len(its), <<>>)

\* range(n) as a list
Range(n) == [i \in 1..n |-> i - 1]

\* a new item, different from every item of the list
FreshItem(its) == IF its = <<>> THEN -1 ELSE Head(its) - 1

\* the variables of cmd_generate while chunk_stable is run on its own
GenQuiet ==
    /\ listing = <<>>
    /\ added = 0
    /\ archive_id_secret = ""
    /\ files = <<>>
    /\ dirs = {<<>>}
    /\ pc = "idle"
    /\ todo = <<>>
    /\ existing_paths = {}
    /\ paths_written = {}
    /\ archive_chunks = <<>>
    /\ handed = <<>>
    /\ writes = <<>>
    /\ deleted = {}
    /\ removed_dirs = {}
    /\ prev = [valid |-> FALSE, listing |-> <<>>, files |-> <<>>,
               dirs |-> {}, archive_chunks |-> <<>>]

InitChunk ==
    /\ GenQuiet
    /\ SlugQuiet
    /\ CrashQuiet
    /\ \E n \in 0..MaxItems : items = Range(n)
    /\ chunk_size \in 1..MaxChunkSize
    /\ min_size \in 0..MaxMinSize
    /\ remaining = 0
    /\ chunks = <<>>
    /\ cpc = "idle"
    /\ prev_items = <<>>
    /\ prev_chunks = <<>>
    /\ has_prev = FALSE

\* a caller puts a new item at the front of the list between two calls
Prepend ==
    /\ UNCHANGED <<gvars, svars, kvars>>
    /\ cpc \in {"idle", "done"}
    /\ Len(items) < MaxItems
    /\ items' = <<FreshItem(items)>> \o items
    /\ IF cpc = "done"
       THEN /\ prev_items' = items
            /\ prev_chunks' = chunks
            /\ has_prev' = TRUE
       ELSE UNCHANGED <<prev_items, prev_chunks, has_prev>>
    /\ cpc' = "idle"
    /\ UNCHANGED <<chunk_size, min_size, remaining, chunks>>

\* lines 74-75: entry of chunk_stable
ChunkCall ==
    /\ UNCHANGED <<gvars, svars, kvars>>
    /\ cpc = "idle"
    /\ chunks' = <<>>
    /\ remaining' = Len(items)
    /\ cpc' = "loop"
    /\ UNCHANGED <<items, chunk_size, min_size, prev_items, prev_chunks, has_prev>>

\* lines 76-82: one iteration of the loop
ChunkIter ==
    /\ UNCHANGED <<gvars, svars, kvars>>
    /\ cpc = "loop"
    /\ remaining > 0
    /\ LET take == ChunkTake(remaining, chunk_size, min_size)
       IN  /\ chunks' = <<ChunkSlice(items, remaining, take)>> \o chunks
           /\ remaining' = remaining - take
    /\ UNCHANGED <<items, chunk_size, min_size, cpc, prev_items, prev_chunks, has_prev>>

\* line 83: the loop condition fails and the list is returned
ChunkReturn ==
    /\ UNCHANGED <<gvars, svars, kvars>>
    /\ cpc = "loop"
    /\ ~(remaining > 0)
    /\ cpc' = "done"
    /\ UNCHANGED <<items, chunk_size, min_size, remaining, chunks,
                   prev_items, prev_chunks, has_prev>>

NextChunk ==
    \/ Prepend
    \/ ChunkCall
    \/ ChunkIter
    \/ ChunkReturn

SpecChunk == InitChunk /\ [][NextChunk]_vars

\* chunk_stable is a sequential function: once called, its loop keeps
\* running and its return is executed; when it is called, and whether the
\* caller's list grows between calls, is up to the caller
SpecChunkLive ==
    SpecChunk /\ WF_vars(ChunkIter) /\ WF_vars(ChunkReturn)

(***************************************************************************)
(* Inputs of cmd_generate: the post source directories                     *)
(*                                                                         *)
(* A post is a record                                                      *)
(*   dir       name of its source directory (unique)                       *)
(*   date      meta['date']                                                *)
(*   url       the groups of meta['url'] matched by re_post_url_format     *)
(*   draft, unlisted   meta.get('draft'), meta.get('unlisted')             *)
(*   tags      meta.get('tags', []), each tag a sequence of characters     *)
(*   has_attach  whether <source_dir>/attach exists                        *)
(*   attach    os.listdir of it: entries [name, kind], kind one of         *)
(*             "file", "dir", "symlink"                                    *)
(* Paths are sequences of names relative to gen_root; file contents are    *)
(* sequences of strings standing for the rendered bytes.                   *)
(***************************************************************************)

\* character classes seen by tag_to_slug
LowerChars == {"a", "b"}
UpperChars == {"A", "B"}
DigitChars == {"1"}
OtherChars == {"+", " ", "-"}

\* str.lower() on one character
Lower(c) == IF c = "A" THEN "a" ELSE IF c = "B" THEN "b" ELSE c

\* line 616: re.sub(r'[^a-z0-9]', '-', tag.lower())
SlugSafe(tag) ==
    [i \in 1..Len(tag) |->
        IF Lower(tag[i]) \in LowerChars \cup DigitChars
        THEN Lower(tag[i]) ELSE "-"]

\* line 617: re.sub(r'\-+', '-', safe)
RECURSIVE SlugShort(_)
SlugShort(safe) ==
    IF Len(safe) <= 1 THEN safe
    ELSE IF safe[1] = "-" /\ safe[2] = "-" THEN SlugShort(Tail(safe))
    ELSE <<safe[1]>> \o SlugShort(Tail(safe))

\* line 618: short.strip('-')
RECURSIVE StripLeft(_)
StripLeft(t) ==
    IF t # <<>> /\ Head(t) = "-" THEN StripLeft(Tail(t)) ELSE t

RECURSIVE StripRight(_)
StripRight(t) ==
    IF t # <<>> /\ t[Len(t)] = "-" THEN StripRight(SubSeq(t, 1, Len(t) - 1)) ELSE t

\* variant of SlugTrimmed: hyphens are stripped at the front only (lstrip)
SlugTrimmedFront(short) == StripLeft(short)

SlugTrimmed(short) == StripRight(StripLeft(short))

\* lines 614-619
tag_to_slug(tag) ==
    LET trimmed == SlugTrimmed(SlugShort(SlugSafe(tag)))
    IN  IF trimmed = <<>> THEN <<"-">> ELSE trimmed

\* the characters of a tag or slug as one string
RECURSIVE Str(_)
Str(cs) == IF cs = <<>> THEN "" ELSE Head(cs) \o Str(Tail(cs))

\* code point order of the characters that can occur in a slug
CharRank(c) ==
    IF c = "-" THEN 0 ELSE IF c = "1" THEN 1 ELSE IF c = "a" THEN 2 ELSE 3

\* str < str on slugs
RECURSIVE SlugLess(_, _)
SlugLess(a, b) ==
    IF b = <<>> THEN FALSE
    ELSE IF a = <<>> THEN TRUE
    ELSE IF Head(a) # Head(b) THEN CharRank(Head(a)) < CharRank(Head(b))
    ELSE SlugLess(Tail(a), Tail(b))

\* sorted(list(set(slugs))) of line 632, for a set of slugs
RECURSIVE SortedSlugs(_)
SortedSlugs(S) ==
    IF S = {} THEN <<>>
    ELSE LET m == CHOOSE x \in S : \A y \in S \ {x} : SlugLess(x, y)
         IN  <<m>> \o SortedSlugs(S \ {m})

\* variant of tag_slugs_for_post: the slugs of the tags as they come, not
\* made unique and not sorted
TagSlugsAsGiven(post) ==
    [i \in 1..Len(post.tags) |-> tag_to_slug(post.tags[i])]

\* lines 622-632
tag_slugs_for_post(post) ==
    SortedSlugs({tag_to_slug(post.tags[i]) : i \in 1..Len(post.tags)})

\* the value None that load_post returns and older_url and newer_url take
None == "None"

\* variant of load_post: a url of any form is accepted
LoadPostAnyUrl(post) ==
    IF post.front = "raises" THEN "raise"
    ELSE IF post.front = "missing" THEN None
    ELSE "loaded"

\* lines 181-252: load_post raises when the front matter does not parse,
\* returns None when a required key is missing or when the post is not a
\* draft and its url has not the form /yyyy/mm/dd/slug/, and returns the
\* post otherwise
load_post(post) ==
    IF post.front = "raises" THEN "raise"
    ELSE IF post.front = "missing" THEN None
    ELSE IF ~post.draft /\ ~post.url_ok THEN None
    ELSE "loaded"

\* lines 947-954: some post directory does not load, cmd_generate raises
LoadFails(post_list) ==
    \E i \in 1..Len(post_list) : load_post(post_list[i]) # "loaded"

\* variant of is_public: only drafts are held back
IsPublicNotDraft(post) == ~post.draft

\* lines 255-256
is_public(post) == ~post.draft /\ ~post.unlisted

\* line 954: sorted(posts, key=date, reverse=True), a stable sort
RECURSIVE SortedDesc(_)
SortedDesc(ps) ==
    IF ps = <<>> THEN <<>>
    ELSE LET rest == SortedDesc(Tail(ps))
             p == Head(ps)
             k == Cardinality({i \in 1..Len(rest) : rest[i].date > p.date})
         IN  SubSeq(rest, 1, k) \o <<p>> \o SubSeq(rest, k + 1, Len(rest))

\* the members of a sequence that satisfy a test, in order
RECURSIVE FilterPublic(_)
FilterPublic(ps) ==
    IF ps = <<>> THEN <<>>
    ELSE IF is_public(Head(ps)) THEN <<Head(ps)>> \o FilterPublic(Tail(ps))
    ELSE FilterPublic(Tail(ps))

RECURSIVE FilterDraft(_)
FilterDraft(ps) ==
    IF ps = <<>> THEN <<>>
    ELSE IF Head(ps).draft THEN <<Head(ps)>> \o FilterDraft(Tail(ps))
    ELSE FilterDraft(Tail(ps))

\* lines 963-964: setdefault(slug, []).append(post) for the slugs of one post;
\* the dict is a sequence of [slug, posts] in insertion order
RECURSIVE TagsAdd(_, _, _)
TagsAdd(tagmap, slugs, post) ==
    IF slugs = <<>> THEN tagmap
    ELSE LET slug == Head(slugs)
             at == {i \in 1..Len(tagmap) : tagmap[i].slug = slug}
             next == IF at = {}
                     THEN Append(tagmap, [slug |-> slug, posts |-> <<post>>])
                     ELSE [tagmap EXCEPT ![CHOOSE i \in at : TRUE].posts =
                                              Append(@, post)]
         IN  TagsAdd(next, Tail(slugs), post)

\* lines 959-964; the dict after one post is a value before the next post
\* is looked at, as in the loop
RECURSIVE TagSlugsToPostsDesc(_, _)
TagSlugsToPostsDesc(ps, tagmap) ==
    IF ps = <<>> THEN tagmap
    ELSE IF ~is_public(Head(ps)) THEN TagSlugsToPostsDesc(Tail(ps), tagmap)
    ELSE CHOOSE result \in
             {TagSlugsToPostsDesc(Tail(ps), next) :
                  next \in {TagsAdd(tagmap, tag_slugs_for_post(Head(ps)),
                                    Head(ps))}} : TRUE

\* tag_slugs_to_posts_desc.get(slug, [])
TagPosts(tagmap, slug) ==
    LET at == {i \in 1..Len(tagmap) : tagmap[i].slug = slug}
    IN  IF at = {} THEN <<>> ELSE tagmap[CHOOSE i \in at : TRUE].posts

\* the source directory names of a list of posts
Dirs(ps) == [i \in 1..Len(ps) |-> ps[i].dir]

(***************************************************************************)
(* The rendering collaborators, as the list of what the rendered bytes     *)
(* depend on                                                               *)
(***************************************************************************)

\* variant of tag_to_link: a tag is a link as soon as its slug has a post
TagToLinkOnePost(tag, tagmap) ==
    LET slug == tag_to_slug(tag)
    IN  IF Len(TagPosts(tagmap, slug)) < 1
        THEN "text:" \o Str(tag)
        ELSE "href:/blog/tag/" \o Str(slug) \o "/"

\* lines 735-742: a tag is rendered as a link only if its slug has more than
\* one post
tag_to_link(tag, tagmap) ==
    LET slug == tag_to_slug(tag)
    IN  IF Len(TagPosts(tagmap, slug)) <= 1
        THEN "text:" \o Str(tag)
        ELSE "href:/blog/tag/" \o Str(slug) \o "/"

\* lines 705-842
generate_post_page(post, tagmap) ==
    <<"post", post.dir>> \o
    [i \in 1..Len(post.tags) |-> tag_to_link(post.tags[i], tagmap)]

\* lines 889-924
generate_post_comments_atom_feed(post) == <<"comments", post.dir>>

\* lines 431-486
generate_quicklinks_page(ps, page_title) == <<"quicklinks", page_title>> \o Dirs(ps)

\* lines 489-577
generate_multipost_page(ps, page_title, older_url, newer_url) ==
    <<"multipost", page_title>> \o Dirs(ps) \o
    <<"older", older_url, "newer", newer_url>>

\* line 865: the feed lists the first 20 posts
FeedLimit == 20

\* lines 844-886
generate_posts_atom_feed(ps) ==
    <<"feed">> \o Dirs(SubSeq(ps, 1, IF Len(ps) < FeedLimit THEN Len(ps) ELSE FeedLimit))

\* line 1054
WarningHardlinks ==
    <<"Warning: These are hardlinked files and cannot be independently edited on the published side.">>

(***************************************************************************)
(* Archive chunks and identifiers (ssg.py 1077-1105)                       *)
(***************************************************************************)

\* line 1079: chunk_stable(posts_desc, chunk_size=5, min_size=3)
ArchiveChunkSize == 5
ArchiveMinSize == 3

\* line 1092: hashlib.shake_128(data).hexdigest(4).lower(), as a symbolic
\* digest of the data
ShakeHex(data) == "h(" \o data \o ")"

\* variant of archive_id_from_index: the secret is left out of the digest
ArchiveIdNoSecret(index, secret) ==
    ToString(index) \o "_" \o ShakeHex(ToString(index))

\* lines 1089-1095
archive_id_from_index(index, secret) ==
    ToString(index) \o "_" \o ShakeHex(ToString(index) \o secret)

\* variant of IndexedChunks: indexes ascend from the newest chunk
IndexedChunksFromNewest(cs) ==
    [i \in 1..Len(cs) |-> [index |-> i, pages |-> cs[i]]]

\* line 1082: list(reversed(list(enumerate(reversed(chunks), start=1)))):
\* newest chunk first, the oldest chunk has index 1
IndexedChunks(cs) ==
    [i \in 1..Len(cs) |-> [index |-> Len(cs) - i + 1, pages |-> cs[i]]]

\* lines 1079-1098: the list of [id, index, pages], newest chunk first
ArchiveChunks(public_desc, secret) ==
    LET ics == IndexedChunks(chunk_stable(public_desc, ArchiveChunkSize, ArchiveMinSize))
    IN  [i \in 1..Len(ics) |->
            [id |-> archive_id_from_index(ics[i].index, secret),
             index |-> ics[i].index,
             pages |-> ics[i].pages]]

\* lines 1101-1105
IndexListing(acs) == IF Len(acs) > 0 THEN acs[1].pages ELSE <<>>

\* variant of ArchivePages: the newest chunk becomes an archive page too
ArchivePagesAll(acs) == acs

\* line 1103: the chunks that become archive pages
ArchivePages(acs) == IF Len(acs) > 0 THEN Tail(acs) ELSE <<>>

\* lines 1109, 1176, 1181
ArchiveUrl(id) == "/blog/archive/" \o id \o ".html"

(***************************************************************************)
(* The operations cmd_generate performs on the output tree, in order       *)
(***************************************************************************)

MakeDirs(path) == [op |-> "makedirs", path |-> path, bytes |-> <<>>, ino |-> <<>>]
Write(path, bytes) == [op |-> "write", path |-> path, bytes |-> bytes, ino |-> <<>>]
Link(path, ino, bytes) == [op |-> "link", path |-> path, bytes |-> bytes, ino |-> ino]

\* line 1016: path.join(gen_root, *path_parts); lines 223-240 give the parts
PostGenDir(post) == IF post.draft THEN <<"draft", post.dir>> ELSE post.url

\* lines 1032-1050: one hard link per entry that is neither a directory nor
\* a symlink
RECURSIVE LinkOps(_, _, _)
LinkOps(post, attach_dest_dir, entries) ==
    IF entries = <<>> THEN <<>>
    ELSE LET e == Head(entries)
         IN  (IF e.kind = "file"
              THEN <<Link(attach_dest_dir \o <<e.name>>,
                          <<"src", post.dir, e.name>>,
                          <<"attachment", post.dir, e.name>>)>>
              ELSE <<>>)
             \o LinkOps(post, attach_dest_dir, Tail(entries))

\* lines 1027-1055
AttachOps(post) ==
    IF ~post.has_attach THEN <<>>
    ELSE LET attach_dest_dir == PostGenDir(post) \o <<"attach">>
             links == LinkOps(post, attach_dest_dir, post.attach)
         IN  <<MakeDirs(attach_dest_dir)>> \o links \o
             (IF links # <<>>
              THEN <<Write(attach_dest_dir \o <<"warning-hardlinks">>, WarningHardlinks)>>
              ELSE <<>>)

\* lines 1015-1055, for one post
PostOps(post, tagmap) ==
    <<MakeDirs(PostGenDir(post)),
      Write(PostGenDir(post) \o <<"index.html">>, generate_post_page(post, tagmap)),
      Write(PostGenDir(post) \o <<"comments.atom">>, generate_post_comments_atom_feed(post))>>
    \o AttachOps(post)

RECURSIVE AllPostOps(_, _)
AllPostOps(ps, tagmap) ==
    IF ps = <<>> THEN <<>>
    ELSE PostOps(Head(ps), tagmap) \o AllPostOps(Tail(ps), tagmap)

\* lines 1058-1070
DraftOps(posts_desc) ==
    LET draft_posts == FilterDraft(posts_desc)
    IN  IF draft_posts # <<>>
        THEN <<MakeDirs(<<"draft">>),
               Write(<<"draft", "index.html">>,
                     generate_quicklinks_page(draft_posts, "Drafts"))>>
        ELSE <<>>

\* variant of IndexOps: no root index page is written
IndexOpsNone(acs) == <<>>

\* lines 1108-1159
IndexOps(acs) ==
    LET pages == ArchivePages(acs)
        most_recent_archive ==
            IF Len(pages) > 0 THEN ArchiveUrl(pages[1].id) ELSE None
    IN  <<Write(<<"index.html">>,
                generate_multipost_page(IndexListing(acs), "Recent posts",
                                        most_recent_archive, None))>>

\* variant of OlderUrl: no archive page has an older link
OlderUrlNone(pages, archive_index) == None

\* lines 1175-1178
OlderUrl(pages, archive_index) ==
    IF archive_index < Len(pages) - 1
    THEN ArchiveUrl(pages[archive_index + 1 + 1].id) ELSE None

\* variant of NewerUrl: every archive page links back to the root index
NewerUrlRoot(pages, archive_index) == "/blog/"

\* lines 1180-1183
NewerUrl(pages, archive_index) ==
    IF archive_index > 0
    THEN ArchiveUrl(pages[archive_index - 1 + 1].id) ELSE "/blog/"

\* lines 1162-1205; archive_index is 0-based as in the code
ArchiveOps(acs) ==
    LET pages == ArchivePages(acs)
    IN  <<MakeDirs(<<"archive">>)>> \o
        [i \in 1..Len(pages) |->
            Write(<<"archive", pages[i].id \o ".html">>,
                  generate_multipost_page(pages[i].pages, "Archive",
                                          OlderUrl(pages, i - 1),
                                          NewerUrl(pages, i - 1)))]

\* lines 1208-1211
FeedOps(public_desc) == <<Write(<<"posts.atom">>, generate_posts_atom_feed(public_desc))>>

\* variant of TagOps: a page for every slug, also one with a single post
RECURSIVE TagOpsAll(_)
TagOpsAll(tagmap) ==
    IF tagmap = <<>> THEN <<>>
    ELSE <<MakeDirs(<<"tag", Str(Head(tagmap).slug)>>),
           Write(<<"tag", Str(Head(tagmap).slug), "index.html">>,
                 generate_quicklinks_page(Head(tagmap).posts,
                                          "Tagged " \o Str(Head(tagmap).slug)))>>
         \o TagOpsAll(Tail(tagmap))

\* lines 1214-1230
RECURSIVE TagOps(_)
TagOps(tagmap) ==
    IF tagmap = <<>> THEN <<>>
    ELSE (IF Len(Head(tagmap).posts) <= 1 THEN <<>>
          ELSE <<MakeDirs(<<"tag", Str(Head(tagmap).slug)>>),
                 Write(<<"tag", Str(Head(tagmap).slug), "index.html">>,
                       generate_quicklinks_page(Head(tagmap).posts,
                                                "Tagged " \o Str(Head(tagmap).slug)))>>)
         \o TagOps(Tail(tagmap))

\* lines 1014-1230: every operation on the output tree before the prune, in
\* the order of the code, from the values computed in lines 954-1098
PlanFrom(posts_desc, tagmap, public_desc, acs) ==
    AllPostOps(posts_desc, tagmap) \o DraftOps(posts_desc) \o IndexOps(acs)
    \o ArchiveOps(acs) \o FeedOps(public_desc) \o TagOps(tagmap)

\* lines 954-1230: every operation on the output tree before the prune, for
\* the posts as listed in the source directory; posts_desc (line 954), the
\* tag dict (957-964), the public posts (1079) and the archive chunks
\* (1079-1098) are each computed once, in this order, and used as values
Plan(post_list, secret) ==
    CHOOSE plan \in
        UNION {UNION {UNION {{PlanFrom(posts_desc, tagmap, public_desc, acs)
                  : acs \in {ArchiveChunks(public_desc, secret)}}
                  : public_desc \in {FilterPublic(posts_desc)}}
                  : tagmap \in {TagSlugsToPostsDesc(posts_desc, <<>>)}}
                  : posts_desc \in {SortedDesc(post_list)}} : TRUE

(***************************************************************************)
(* The output tree                                                         *)
(***************************************************************************)

Parent(path) == SubSeq(path, 1, Len(path) - 1)

\* the directories os.makedirs(path) needs: path and its ancestors below
\* gen_root
Prefixes(path) == {SubSeq(path, 1, k) : k \in 1..Len(path)}

\* the tree with the file at path set to a value
FilePut(fs, path, file) ==
    [q \in DOMAIN fs \cup {path} |-> IF q = path THEN file ELSE fs[q]]

\* the tree without the file at path (os.remove)
FileRemove(fs, path) == [q \in DOMAIN fs \ {path} |-> fs[q]]

\* the inode a file created at path gets
NewIno(path) == <<"out">> \o path

\* os.makedirs(path, exist_ok=True) raises when path or one of its ancestors
\* is a regular file
MakeDirsFails(fs, path) == Prefixes(path) \cap DOMAIN fs # {}

\* variant of WriteFails: no read and no write ever raises
WriteFailsNever(fs, ds, path) == FALSE

\* lines 997-999: reading a path that exists raises when it is a directory;
\* lines 1004-1005: creating a file raises when its directory is missing
WriteFails(fs, ds, path) == path \in ds \/ Parent(path) \notin ds

\* variant of WriteNeeded: the file is rewritten whenever it exists
WriteNeededAlways(fs, path, newbytes) == TRUE

\* variant of WriteNeeded: an existing file is never rewritten
WriteNeededAbsent(fs, path, newbytes) == path \notin DOMAIN fs

\* lines 997-1003: newbytes != oldbytes, oldbytes None when the path is absent
WriteNeeded(fs, path, newbytes) ==
    IF path \in DOMAIN fs THEN newbytes # fs[path].bytes ELSE TRUE

\* lines 1004-1005: open(abs_path, 'wb') and write; an existing file keeps
\* its inode
FileWritten(fs, path, newbytes) ==
    FilePut(fs, path,
            [ino |-> IF path \in DOMAIN fs THEN fs[path].ino ELSE NewIno(path),
             bytes |-> newbytes])

\* variant of RecordWritten: the path is not recorded
RecordNothing(written, path) == written

\* lines 984-988
RecordWritten(written, path) == written \cup {path}

\* a directory with neither files nor subdirectories
EmptyDir(fs, ds, d) ==
    /\ \A f \in DOMAIN fs : Parent(f) # d
    /\ \A e \in ds : e # <<>> => Parent(e) # d

\* variant of RemoveDirs: only the directory itself is removed (os.rmdir)
RemoveDirsNoClimb(fs, ds, d) == ds \ {d}

\* line 1242: os.removedirs removes the directory and then every ancestor
\* that has become empty
RECURSIVE RemoveDirs(_, _, _)
RemoveDirs(fs, ds, d) ==
    LET ds1 == ds \ {d}
    IN  IF d # <<>> /\ EmptyDir(fs, ds1, Parent(d))
        THEN RemoveDirs(fs, ds1, Parent(d))
        ELSE ds1

(***************************************************************************)
(* The posts and the trees the model draws                                 *)
(***************************************************************************)

\* the plain post: public, one tag, no attachments
PlainKind ==
    [draft |-> FALSE, unlisted |-> FALSE, tags |-> << <<"a">> >>,
     has_attach |-> FALSE, attach |-> <<>>, dup |-> FALSE,
     front |-> "ok", url_ok |-> TRUE]

PostKinds ==
    { PlainKind,
      [PlainKind EXCEPT !.tags = << <<"A", "+">>, <<"a">>, <<"+">>, <<"b", " ", "1">> >>],
      [PlainKind EXCEPT !.unlisted = TRUE],
      [PlainKind EXCEPT !.draft = TRUE, !.url_ok = FALSE, !.has_attach = TRUE,
                        !.attach = << [name |-> "ln", kind |-> "symlink"] >>],
      [PlainKind EXCEPT !.tags = <<>>, !.has_attach = TRUE,
                        !.attach = << [name |-> "f.png", kind |-> "file"],
                                      [name |-> "sub", kind |-> "dir"] >>],
      [PlainKind EXCEPT !.dup = TRUE],
      [PlainKind EXCEPT !.front = "missing"],
      [PlainKind EXCEPT !.front = "raises"],
      [PlainKind EXCEPT !.url_ok = FALSE] }

\* the n-th post put into the source directory; a dup post carries the url
\* that the post after it will have; front tells whether the front matter
\* parses and has the required keys, url_ok whether the url has the form
\* /yyyy/mm/dd/slug/
MkPost(n, kind) ==
    [dir |-> "p" \o ToString(n),
     date |-> n,
     url |-> IF kind.url_ok
             THEN <<"2020", "01", "01",
                    "p" \o ToString(IF kind.dup THEN n + 1 ELSE n)>>
             ELSE <<"2020", "1", "1", "P" \o ToString(n)>>,
     front |-> kind.front,
     url_ok |-> kind.url_ok,
     draft |-> kind.draft,
     unlisted |-> kind.unlisted,
     tags |-> kind.tags,
     has_attach |-> kind.has_attach,
     attach |-> kind.attach]

Junk == <<"junk">>

\* files that no run produces, and a file a run produces with other bytes
StaleCandidates ==
    { <<"old.html">>, <<"tag", "gone", "index.html">>, <<"index.html">>,
      <<"2020", "01", "01", "p1", "attach", "f.png">> }

\* a tree holding the given files with junk bytes, and the given directories
TreeOf(paths, more_dirs) ==
    [files |-> [q \in paths |-> [ino |-> NewIno(q), bytes |-> Junk]],
     dirs |-> {<<>>} \cup more_dirs
              \cup UNION {Prefixes(Parent(q)) : q \in paths}]

\* the output trees a first run may find
InitTrees ==
    { TreeOf(S, {}) : S \in SUBSET StaleCandidates }
    \cup { TreeOf({}, {<<"empty", "deep">>, <<"empty">>}),
           TreeOf({<<"archive">>}, {}),
           TreeOf({<<"tag", "b-1", "index.html">>}, {}),
           TreeOf({<<"old.html">>}, {<<"posts.atom">>}) }

Secrets == {"k"}

NoPrev ==
    [valid |-> FALSE, listing |-> <<>>, files |-> <<>>, dirs |-> {},
     archive_chunks |-> <<>>]

(***************************************************************************)
(* cmd_generate (ssg.py 927-1245)                                          *)
(***************************************************************************)

\* chunk_stable's own variables while cmd_generate runs
ChunkQuiet ==
    /\ items = <<>>
    /\ chunk_size = ArchiveChunkSize
    /\ min_size = ArchiveMinSize
    /\ remaining = 0
    /\ chunks = <<>>
    /\ cpc = "idle"
    /\ prev_items = <<>>
    /\ prev_chunks = <<>>
    /\ has_prev = FALSE

Init ==
    /\ ChunkQuiet
    /\ SlugQuiet
    /\ CrashQuiet
    /\ listing = <<>>
    /\ added = 0
    /\ archive_id_secret \in Secrets
    /\ \E t \in InitTrees : files = t.files /\ dirs = t.dirs
    /\ pc = "idle"
    /\ todo = <<>>
    /\ existing_paths = {}
    /\ paths_written = {}
    /\ archive_chunks = <<>>
    /\ handed = <<>>
    /\ writes = <<>>
    /\ deleted = {}
    /\ removed_dirs = {}
    /\ prev = NoPrev

\* what the next run will compare itself with: the run just completed, if any
Snapshot ==
    IF pc = "done"
    THEN [valid |-> TRUE, listing |-> listing, files |-> files, dirs |-> dirs,
          archive_chunks |-> archive_chunks]
    ELSE IF pc = "aborted" THEN NoPrev
    ELSE prev

\* the author adds a post, newer than all others, between two runs
AddPost ==
    /\ pc \in {"idle", "done", "aborted"}
    /\ Len(listing) < MaxPosts
    /\ added < MaxAdded
    /\ added' = added + 1
    /\ \E kind \in PostKinds :
          /\ Len(listing) >= SpecialPosts => kind = PlainKind
          /\ listing' = Append(listing, MkPost(Len(listing) + 1, kind))
    /\ prev' = Snapshot
    /\ pc' = "idle"
    /\ UNCHANGED <<archive_id_secret, files, dirs, todo, existing_paths,
                   paths_written, archive_chunks, handed, writes, deleted,
                   removed_dirs>>
    /\ UNCHANGED <<cvars, svars, kvars>>

\* lines 931-982 and the computations of lines 1058-1111 and 1214-1219 that
\* do not touch the tree: load, sort, collect tags, enumerate existing files
GenerateStart ==
    /\ pc \in {"idle", "done", "aborted"}
    /\ prev' = Snapshot
    /\ IF LoadFails(listing)
       THEN \* line 952: raise before the output tree is looked at
            /\ existing_paths' = {}
            /\ archive_chunks' = <<>>
            /\ todo' = <<>>
            /\ pc' = "aborted"
       ELSE /\ existing_paths' = DOMAIN files
            /\ \E public_desc \in {FilterPublic(SortedDesc(listing))} :
                   archive_chunks' = ArchiveChunks(public_desc, archive_id_secret)
            /\ todo' = Plan(listing, archive_id_secret)
            /\ pc' = "write"
    /\ paths_written' = {}
    /\ handed' = <<>>
    /\ writes' = <<>>
    /\ deleted' = {}
    /\ removed_dirs' = {}
    /\ added' = 0
    /\ UNCHANGED <<listing, archive_id_secret, files, dirs>>
    /\ UNCHANGED <<cvars, svars, kvars>>

\* the position after the head of todo has been performed
AfterOp == IF Len(todo) = 1 THEN "prune" ELSE "write"

\* lines 1017, 1030, 1061, 1163, 1221: os.makedirs(..., exist_ok=True)
DoMakeDirs ==
    /\ pc = "write" /\ todo # <<>> /\ Head(todo).op = "makedirs"
    /\ LET path == Head(todo).path
       IN  IF MakeDirsFails(files, path)
           THEN /\ pc' = "aborted"
                /\ UNCHANGED <<dirs, todo>>
           ELSE /\ dirs' = dirs \cup Prefixes(path)
                /\ todo' = Tail(todo)
                /\ pc' = AfterOp
    /\ UNCHANGED <<listing, added, archive_id_secret, files, existing_paths,
                   paths_written, archive_chunks, handed, writes, deleted,
                   removed_dirs, prev>>
    /\ UNCHANGED <<cvars, svars, kvars>>

\* lines 991-1011: write_and_record
DoWriteAndRecord ==
    /\ pc = "write" /\ todo # <<>> /\ Head(todo).op = "write"
    /\ LET path == Head(todo).path
           newbytes == Head(todo).bytes
       IN  /\ handed' = Append(handed, [path |-> path, bytes |-> newbytes])
           /\ IF WriteFails(files, dirs, path)
              THEN /\ pc' = "aborted"
                   /\ UNCHANGED <<files, todo, paths_written, writes>>
              ELSE /\ IF WriteNeeded(files, path, newbytes)
                      THEN /\ files' = FileWritten(files, path, newbytes)
                           /\ writes' = Append(writes, path)
                      ELSE UNCHANGED <<files, writes>>
                   /\ paths_written' = RecordWritten(paths_written, path)
                   /\ todo' = Tail(todo)
                   /\ pc' = AfterOp
    /\ UNCHANGED <<listing, added, archive_id_secret, dirs, existing_paths,
                   archive_chunks, deleted, removed_dirs, prev>>
    /\ UNCHANGED <<cvars, svars, kvars>>

\* lines 1040-1050: hard-link one attachment
DoLinkAttachment ==
    /\ pc = "write" /\ todo # <<>> /\ Head(todo).op = "link"
    /\ LET attach_dest == Head(todo).path
           src == [ino |-> Head(todo).ino, bytes |-> Head(todo).bytes]
       IN  IF attach_dest \in dirs
           THEN \* os.remove of a directory raises
                /\ pc' = "aborted"
                /\ UNCHANGED <<files, todo, paths_written>>
           ELSE /\ files' =
                      IF attach_dest \in DOMAIN files
                         /\ files[attach_dest].ino = src.ino
                      THEN files
                      ELSE FilePut(files, attach_dest, src)
                /\ paths_written' = RecordWritten(paths_written, attach_dest)
                /\ todo' = Tail(todo)
                /\ pc' = AfterOp
    /\ UNCHANGED <<listing, added, archive_id_secret, dirs, existing_paths,
                   archive_chunks, handed, writes, deleted, removed_dirs, prev>>
    /\ UNCHANGED <<cvars, svars, kvars>>

\* variant of Stale: every file found at the start of the run is stale
StaleAllExisting(fs, written, existing) == DOMAIN fs \cap existing

\* variant of Stale: only files that were there at the start and are kept
StaleNone(fs, written, existing) == {}

\* line 1236: the files the walk finds that are not in paths_written
Stale(fs, written, existing) == DOMAIN fs \ written

\* lines 1233-1238: the walk removes one file that was not re-generated
PruneFile ==
    /\ pc = "prune"
    /\ \E filepath \in Stale(files, paths_written, existing_paths) :
          /\ files' = FileRemove(files, filepath)
          /\ deleted' = deleted \cup {filepath}
    /\ UNCHANGED <<listing, added, archive_id_secret, dirs, pc, todo, existing_paths,
                   paths_written, archive_chunks, handed, writes,
                   removed_dirs, prev>>
    /\ UNCHANGED <<cvars, svars, kvars>>

\* line 1233: the walk is over
PruneEnd ==
    /\ pc = "prune"
    /\ Stale(files, paths_written, existing_paths) = {}
    /\ pc' = "rmdirs"
    /\ UNCHANGED <<listing, added, archive_id_secret, files, dirs, todo,
                   existing_paths, paths_written, archive_chunks, handed,
                   writes, deleted, removed_dirs, prev>>
    /\ UNCHANGED <<cvars, svars, kvars>>

\* line 1240: os.walk(gen_root) is top-down, so when it has reached a
\* directory it has been through every ancestor of it and does not come back
\* to them: the directories still standing above one that was removed
Walked ==
    {d \in dirs : \E r \in removed_dirs : Len(d) < Len(r) /\ d \in Prefixes(r) \cup {<<>>}}

\* lines 1240-1243: the walk reaches a directory without entries
RemoveEmptyDir ==
    /\ pc = "rmdirs"
    /\ \E parent \in dirs \ Walked :
          /\ EmptyDir(files, dirs, parent)
          /\ dirs' = RemoveDirs(files, dirs, parent)
          /\ removed_dirs' = removed_dirs \cup (dirs \ dirs')
    /\ UNCHANGED <<listing, added, archive_id_secret, files, pc, todo, existing_paths,
                   paths_written, archive_chunks, handed, writes, deleted,
                   prev>>
    /\ UNCHANGED <<cvars, svars, kvars>>

\* line 1245: the second walk is over (every directory it had still to reach
\* has entries), the run is complete
GenerateEnd ==
    /\ pc = "rmdirs"
    /\ \A d \in dirs \ Walked : ~EmptyDir(files, dirs, d)
    /\ pc' = "done"
    /\ UNCHANGED <<listing, added, archive_id_secret, files, dirs, todo,
                   existing_paths, paths_written, archive_chunks, handed,
                   writes, deleted, removed_dirs, prev>>
    /\ UNCHANGED <<cvars, svars, kvars>>

Next ==
    \/ AddPost
    \/ GenerateStart
    \/ DoMakeDirs
    \/ DoWriteAndRecord
    \/ DoLinkAttachment
    \/ PruneFile
    \/ PruneEnd
    \/ RemoveEmptyDir
    \/ GenerateEnd

Spec == Init /\ [][Next]_vars

(***************************************************************************)
(* cmd_generate run again and again over the same posts, with runs that    *)
(* are interrupted (ssg.py 927-1245)                                       *)
(***************************************************************************)

\* a source directory of n posts: the oldest of any kind, the others plain
CrashListing(n, kind) ==
    [i \in 1..n |-> MkPost(i, IF i = 1 THEN kind ELSE PlainKind)]

InitCrash ==
    /\ ChunkQuiet
    /\ SlugQuiet
    /\ CrashQuiet
    /\ \E n \in 0..MaxCrashPosts : \E kind \in PostKinds :
          listing = CrashListing(n, kind)
    /\ added = 0
    /\ archive_id_secret \in Secrets
    /\ \E t \in InitTrees : files = t.files /\ dirs = t.dirs
    /\ pc = "idle"
    /\ todo = <<>>
    /\ existing_paths = {}
    /\ paths_written = {}
    /\ archive_chunks = <<>>
    /\ handed = <<>>
    /\ writes = <<>>
    /\ deleted = {}
    /\ removed_dirs = {}
    /\ prev = NoPrev

\* the process is killed between two operations on the output tree
Crash ==
    /\ pc \in {"write", "prune", "rmdirs"}
    /\ pc' = "aborted"
    /\ crashed' = TRUE
    /\ UNCHANGED <<listing, added, archive_id_secret, files, dirs, todo,
                   existing_paths, paths_written, archive_chunks, handed,
                   writes, deleted, removed_dirs, prev>>
    /\ UNCHANGED <<cvars, svars>>

\* lines 1043-1047: the process is killed after os.remove(attach_dest) and
\* before os.link
CrashInLink ==
    /\ pc = "write" /\ todo # <<>> /\ Head(todo).op = "link"
    /\ LET attach_dest == Head(todo).path
       IN  /\ attach_dest \in DOMAIN files
           /\ files[attach_dest].ino # Head(todo).ino
           /\ files' = FileRemove(files, attach_dest)
    /\ pc' = "aborted"
    /\ crashed' = TRUE
    /\ UNCHANGED <<listing, added, archive_id_secret, dirs, todo,
                   existing_paths, paths_written, archive_chunks, handed,
                   writes, deleted, removed_dirs, prev>>
    /\ UNCHANGED <<cvars, svars>>

NextCrash ==
    \/ GenerateStart
    \/ DoMakeDirs
    \/ DoWriteAndRecord
    \/ DoLinkAttachment
    \/ PruneFile
    \/ PruneEnd
    \/ RemoveEmptyDir
    \/ GenerateEnd
    \/ Crash
    \/ CrashInLink

SpecCrash == InitCrash /\ [][NextCrash]_vars

(***************************************************************************)
(* cmd_generate over source directories with many public posts, for the    *)
(* links between the index and the archive pages (ssg.py 1079-1205)        *)
(***************************************************************************)

InitNav ==
    /\ ChunkQuiet
    /\ SlugQuiet
    /\ CrashQuiet
    /\ \E n \in 0..MaxNavPosts : listing = CrashListing(n, PlainKind)
    /\ added = 0
    /\ archive_id_secret \in Secrets
    /\ \E t \in {TreeOf({}, {}), TreeOf({<<"old.html">>}, {})} :
          files = t.files /\ dirs = t.dirs
    /\ pc = "idle"
    /\ todo = <<>>
    /\ existing_paths = {}
    /\ paths_written = {}
    /\ archive_chunks = <<>>
    /\ handed = <<>>
    /\ writes = <<>>
    /\ deleted = {}
    /\ removed_dirs = {}
    /\ prev = NoPrev

NextNav ==
    \/ GenerateStart
    \/ DoMakeDirs
    \/ DoWriteAndRecord
    \/ PruneFile
    \/ PruneEnd
    \/ RemoveEmptyDir
    \/ GenerateEnd

SpecNav == InitNav /\ [][NextNav]_vars

(***************************************************************************)
(* tag_to_slug run on its own (ssg.py 614-619)                             *)
(***************************************************************************)

\* the characters a tag is made of
TagChars == LowerChars \cup UpperChars \cup DigitChars \cup OtherChars

InitSlug ==
    /\ ChunkQuiet
    /\ GenQuiet
    /\ SlugQuiet
    /\ CrashQuiet

\* the author types one more character of the tag
TypeChar ==
    /\ Len(tag_str) < MaxTagLen
    /\ \E c \in TagChars : tag_str' = Append(tag_str, c)
    /\ slug_str' = <<>>
    /\ spc' = "idle"
    /\ UNCHANGED <<cvars, gvars, kvars>>

\* lines 614-619: tag_to_slug(tag_str) is called and returns
SlugCall ==
    /\ spc = "idle"
    /\ slug_str' = tag_to_slug(tag_str)
    /\ spc' = "returned"
    /\ UNCHANGED tag_str
    /\ UNCHANGED <<cvars, gvars, kvars>>

NextSlug ==
    \/ TypeChar
    \/ SlugCall

SpecSlug == InitSlug /\ [][NextSlug]_vars

(***************************************************************************)
(* Properties of chunk_stable                                              *)
(***************************************************************************)

RECURSIVE Concat(_)
Concat(ss) == IF ss = <<>> THEN <<>> ELSE Head(ss) \o Concat(Tail(ss))

RECURSIVE SumLen(_)
SumLen(ss) == IF ss = <<>> THEN 0 ELSE Len(Head(ss)) + SumLen(Tail(ss))

\* the j-th chunk counted from the end (the oldest end), j >= 1
FromEnd(ss, j) == ss[Len(ss) - j + 1]

\* C1: every chunk of the previous result other than its first chunk appears
\* with the same members at the same position counted from the end in the
\* result for the list with any number of new items prepended.
C1_StableUnderPrepend ==
    (cpc = "done" /\ has_prev /\ min_size < chunk_size) =>
        \A j \in 1..(Len(prev_chunks) - 1) :
            /\ j <= Len(chunks)
            /\ FromEnd(chunks, j) = FromEnd(prev_chunks, j)

\* C1 witness: items were prepended to a list that had several chunks and the
\* new result has more chunks than the old one (the first chunk was re-split)
C1_Witness ==
    /\ cpc = "done" /\ has_prev /\ min_size < chunk_size
    /\ Len(prev_chunks) >= 2
    /\ Len(items) > Len(prev_items)
    /\ Len(chunks) > Len(prev_chunks)

\* C2: concatenating the returned chunks in order yields the input list.
C2_ExactPartition ==
    (cpc = "done" /\ min_size < chunk_size) => Concat(chunks) = items

\* C2 witness: a completed call that returned at least three chunks
C2_Witness ==
    cpc = "done" /\ min_size < chunk_size /\ Len(chunks) >= 3

\* C3: with chunk_size 5 and min_size 3 the first chunk has between 1 and 7
\* items, every other chunk has exactly 5, the sizes sum to the length of the
\* input and no chunk is empty.
C3_ChunkSizes ==
    (cpc = "done" /\ chunk_size = 5 /\ min_size = 3) =>
        /\ chunks # <<>> =>
               Len(chunks[1]) \in 1..(chunk_size + min_size - 1)
        /\ \A i \in 2..Len(chunks) : Len(chunks[i]) = chunk_size
        /\ \A i \in 1..Len(chunks) : Len(chunks[i]) >= 1
        /\ SumLen(chunks) = Len(items)

\* C3 witness: a call with the tested configuration whose first chunk has the
\* largest size, followed by a full chunk
C3_Witness ==
    /\ cpc = "done" /\ chunk_size = 5 /\ min_size = 3
    /\ Len(chunks) >= 2
    /\ Len(chunks[1]) = chunk_size + min_size - 1

\* the reference partition of range(n) for chunk_size 5 and min_size 3
Reference(n) ==
    IF n = 0 THEN <<>>
    ELSE IF n <= 7 THEN <<Range(n)>>
    ELSE LET first == 3 + ((n - 3) % 5)
             k == (n - 3) \div 5
         IN  <<Range(first)>> \o
             [i \in 1..k |-> [j \in 1..5 |-> first + 5 * (i - 1) + j - 1]]

\* C4: with chunk_size 5 and min_size 3, chunk_stable(range(N)) equals the
\* reference partition for every N of the bounded range.
C4_ReferenceResult ==
    (cpc = "done" /\ chunk_size = 5 /\ min_size = 3
        /\ items = Range(Len(items))) =>
        chunks = Reference(Len(items))

\* C4 witness: the call on range(13), whose result has three chunks
C4_Witness ==
    /\ cpc = "done" /\ chunk_size = 5 /\ min_size = 3
    /\ items = Range(13)
    /\ chunks = <<Range(3), <<3, 4, 5, 6, 7>>, <<8, 9, 10, 11, 12>>>>

\* C5: for 0 <= M < C and N >= C + M items the first chunk has size s with
\* M <= s <= C + M - 1, the smallest size that is at least M and leaves a
\* multiple of C items; the first chunk is smaller than M only when N < M.
C5_MinimalFirstChunk ==
    (cpc = "done" /\ min_size < chunk_size /\ chunks # <<>>) =>
        LET s == Len(chunks[1])
            n == Len(items)
        IN  /\ n >= chunk_size + min_size =>
                   /\ min_size <= s
                   /\ s <= chunk_size + min_size - 1
                   /\ (n - s) % chunk_size = 0
                   /\ \A t \in min_size..(s - 1) : (n - t) % chunk_size # 0
            /\ s < min_size => n < min_size

(***************************************************************************)
(* Properties of cmd_generate                                              *)
(***************************************************************************)

\* the path of the archive page of a chunk
ArchivePath(chunk) == <<"archive", chunk.id \o ".html">>

\* the archive pages of a run: the chunks after the newest one
PagesOf(acs) == {acs[i] : i \in 2..Len(acs)}

\* the posts added since the previous completed run are newer public posts
AddedPublic ==
    /\ Len(prev.listing) <= Len(listing)
    /\ SubSeq(listing, 1, Len(prev.listing)) = prev.listing
    /\ \A i \in (Len(prev.listing) + 1)..Len(listing) :
          /\ is_public(listing[i])
          /\ \A j \in 1..Len(prev.listing) : listing[i].date > listing[j].date

\* C6: after newer public posts are added, every archive page of the previous
\* run is produced again with the same identifier, the same chunk index and
\* the same member posts in the same order; archive pages that are new have
\* higher indexes than every earlier one.
C6_ArchivePagesDoNotShift ==
    (pc = "done" /\ prev.valid /\ AddedPublic) =>
        /\ \A a \in PagesOf(prev.archive_chunks) :
              /\ a \in PagesOf(archive_chunks)
              /\ ArchivePath(a) \in DOMAIN prev.files
              /\ ArchivePath(a) \in DOMAIN files
        /\ \A b \in PagesOf(archive_chunks) \ PagesOf(prev.archive_chunks) :
              \A a \in PagesOf(prev.archive_chunks) : b.index > a.index

\* C6 witness: posts were added to a site that had an archive page and the run
\* after it produced one archive page more
C6_Witness ==
    /\ pc = "done" /\ prev.valid /\ AddedPublic
    /\ Len(listing) > Len(prev.listing)
    /\ PagesOf(prev.archive_chunks) # {}
    /\ Cardinality(PagesOf(archive_chunks)) >
           Cardinality(PagesOf(prev.archive_chunks))

\* a step that is a call of write_and_record that returns
WriteCallReturns ==
    /\ pc = "write" /\ todo # <<>> /\ Head(todo).op = "write"
    /\ pc' # "aborted"

\* C7: write_and_record opens the file for writing if and only if the file is
\* absent or its bytes differ from the new bytes; when the bytes on disk equal
\* the new bytes no file of the tree is written.
C7_WriteOrSkip ==
    [][WriteCallReturns =>
        LET path == Head(todo).path
            differs == path \notin DOMAIN files
                       \/ files[path].bytes # Head(todo).bytes
        IN  /\ differs => writes' = Append(writes, path)
            /\ ~differs => (writes' = writes /\ files' = files)
            /\ path \in DOMAIN files' /\ files'[path].bytes = Head(todo).bytes
            /\ \A q \in DOMAIN files \ {path} :
                  q \in DOMAIN files' /\ files'[q] = files[q]
            /\ DOMAIN files' \subseteq DOMAIN files \cup {path}]_vars

\* C7 witness: a run in which one file handed to write_and_record was written
\* and another one was left alone
C7_Witness ==
    /\ pc = "write"
    /\ writes # <<>>
    /\ \E i \in 1..Len(handed) :
          \A j \in 1..Len(writes) : writes[j] # handed[i].path

\* the operations of a plan that produce a file
FileOps(plan) == {i \in 1..Len(plan) : plan[i].op \in {"write", "link"}}

\* the artifact paths of a plan
ArtifactPaths(plan) == {plan[i].path : i \in FileOps(plan)}

\* the bytes computed for a path: those of the last artifact with that path
ComputedBytes(plan, path) ==
    LET at == {i \in FileOps(plan) : plan[i].path = path}
        last == CHOOSE i \in at : \A j \in at : j <= i
    IN  plan[last].bytes

\* C8: after a completed run the files under the output root are exactly the
\* artifact paths computed in the run and every file holds the bytes computed
\* for its path.
C8_Convergence ==
    pc = "done" =>
        LET plan == Plan(listing, archive_id_secret)
        IN  /\ DOMAIN files = ArtifactPaths(plan)
            /\ \A f \in DOMAIN files : files[f].bytes = ComputedBytes(plan, f)

\* C8 witness: a first run over a tree with a stale file and a file with wrong
\* bytes has completed, with deletions and writes
C8_Witness ==
    /\ pc = "done" /\ ~prev.valid
    /\ <<"index.html">> \in existing_paths
    /\ deleted # {}
    /\ writes # <<>>
    /\ Len(listing) >= 2

\* C9: a second run with the same inputs performs no file write, no file
\* deletion and no directory removal and leaves the tree as it was.
C9_Idempotence ==
    (pc = "done" /\ prev.valid /\ prev.listing = listing) =>
        /\ writes = <<>>
        /\ deleted = {}
        /\ removed_dirs = {}
        /\ files = prev.files
        /\ dirs = prev.dirs

\* C10: the files deleted by the prune are exactly the files found under the
\* output root at the start of the run that were not marked kept.
C10_PruneExact ==
    pc \in {"rmdirs", "done"} => deleted = existing_paths \ paths_written

\* C10 witness: a completed run that deleted some of the files it found and
\* kept others
C10_Witness ==
    /\ pc = "done"
    /\ deleted # {}
    /\ existing_paths \cap paths_written # {}

\* C11: after a completed run no directory of the output tree is empty,
\* whether it lost its entries to the prune or was created empty in this run
C11_NoEmptyDirectory ==
    pc = "done" => \A d \in dirs : ~EmptyDir(files, dirs, d)

\* a run completed in which archive/ was created without archive pages and
\* tag/gone/ and tag/ lost everything to the prune
C11_Witness ==
    /\ pc = "done"
    /\ <<"tag", "gone", "index.html">> \in deleted
    /\ {<<"archive">>, <<"tag", "gone">>, <<"tag">>} \subseteq removed_dirs
    /\ <<"archive">> \notin prev.dirs

\* a post directory of the kinds the claim names: front matter that does not
\* parse, a required key missing, or not a draft and the url malformed
Unloadable(post) ==
    post.front \in {"raises", "missing"} \/ (~post.draft /\ ~post.url_ok)

\* C12: when some post does not load, the run aborts and no step of it
\* creates, modifies or deletes a file or a directory of the output tree
C12_AllOrNothingLoad ==
    [][(\E i \in 1..Len(listing) : Unloadable(listing[i])) =>
          /\ files' = files
          /\ dirs' = dirs
          /\ pc' \in {"idle", "aborted"}]_vars

\* a run was started over a tree with stale files and a post list of which
\* one post does not load
C12_Witness ==
    /\ pc = "aborted"
    /\ \E i \in 1..Len(listing) : Unloadable(listing[i])
    /\ <<"old.html">> \in DOMAIN files
    /\ handed = <<>>

\* C13: within one run no two calls of write_and_record are given the same
\* path, whatever posts were loaded
C13_PathUniqueness ==
    \A i, j \in 1..Len(handed) :
        i # j => handed[i].path # handed[j].path

\* the chunks of the public posts of the current listing, newest first
PublicChunks ==
    chunk_stable(FilterPublic(SortedDesc(listing)), ArchiveChunkSize,
                 ArchiveMinSize)

\* the files of the archive directory
ArchiveFiles == {f \in DOMAIN files : f[1] = "archive"}

\* the posts a multipost page lists
ListedOn(bytes) == SubSeq(bytes, 3, Len(bytes) - 4)

\* C15: with k chunks the chunk at position i from the newest has index
\* k - i + 1, so that the oldest chunk has index 1 and the newest index k;
\* the newest chunk is listed on index.html and has no archive page; the
\* archive pages are exactly one for each index 1..k-1, each listing the
\* posts of the chunk of that index
C15_ChunkIndexingAndLayout ==
    pc = "done" =>
        LET k == Len(PublicChunks)
        IN  /\ Len(archive_chunks) = k
            /\ \A i \in 1..k :
                  /\ archive_chunks[i].index = k - i + 1
                  /\ archive_chunks[i].pages = PublicChunks[i]
            /\ \A i, j \in 1..k :
                  archive_chunks[i].index < archive_chunks[j].index =>
                      \A a \in 1..Len(archive_chunks[i].pages) :
                      \A b \in 1..Len(archive_chunks[j].pages) :
                          archive_chunks[i].pages[a].date
                              < archive_chunks[j].pages[b].date
            /\ ListedOn(files[<<"index.html">>].bytes) =
                   IF k >= 1 THEN Dirs(PublicChunks[1]) ELSE <<>>
            /\ ArchiveFiles =
                   {<<"archive",
                      archive_id_from_index(n, archive_id_secret) \o ".html">> :
                      n \in 1..(k - 1)}
            /\ \A n \in 1..(k - 1) :
                  ListedOn(files[<<"archive",
                                  archive_id_from_index(n, archive_id_secret)
                                      \o ".html">>].bytes)
                      = Dirs(PublicChunks[k - n + 1])

\* a run completed with three chunks: index.html and two archive pages
C15_Witness ==
    /\ pc = "done"
    /\ Len(PublicChunks) = 3
    /\ Cardinality(ArchiveFiles) = 2

\* the slugs that the tags of a post normalize to
SlugsOf(post) == {tag_to_slug(post.tags[t]) : t \in 1..Len(post.tags)}

\* the listed posts: neither draft nor unlisted
Listed == {i \in 1..Len(listing) : ~listing[i].draft /\ ~listing[i].unlisted}

\* the listed posts with a tag that normalizes to the slug
Members(slug) == {i \in Listed : slug \in SlugsOf(listing[i])}

\* the path of the page of a slug
TagPagePath(slug) == <<"tag", Str(slug), "index.html">>

\* C16: after a completed run the files under tag/ are exactly the pages of
\* the slugs with two or more listed posts; a slug with one listed post has
\* no page, also when an earlier run had left one
C16_TagPageEmission ==
    pc = "done" =>
        /\ {f \in DOMAIN files : f[1] = "tag"} =
               {TagPagePath(slug) :
                   slug \in {g \in UNION {SlugsOf(listing[i]) : i \in Listed} :
                               Cardinality(Members(g)) >= 2}}
        /\ \A i \in 1..Len(listing) : \A slug \in SlugsOf(listing[i]) :
              Cardinality(Members(slug)) = 1 =>
                  TagPagePath(slug) \notin DOMAIN files

\* a run completed that produced the page of slug a, with two listed posts,
\* and removed a page found for slug b-1, which has one listed post
C16_Witness ==
    /\ pc = "done"
    /\ Cardinality(Members(<<"a">>)) = 2
    /\ TagPagePath(<<"a">>) \in DOMAIN files
    /\ Cardinality(Members(<<"b", "-", "1">>)) = 1
    /\ TagPagePath(<<"b", "-", "1">>) \in deleted

\* the characters of [a-z0-9]
SlugAlnum == LowerChars \cup DigitChars

\* C17: tag_to_slug returns either "-" or a non-empty string over [a-z0-9-]
\* without two adjacent hyphens and without a hyphen at either end; it
\* returns "-" exactly when the lowercased tag has no character of [a-z0-9]
C17_SlugNormalForm ==
    spc = "returned" =>
        /\ \/ slug_str = <<"-">>
           \/ /\ slug_str # <<>>
              /\ \A i \in 1..Len(slug_str) : slug_str[i] \in SlugAlnum \cup {"-"}
              /\ \A i \in 1..(Len(slug_str) - 1) :
                    ~(slug_str[i] = "-" /\ slug_str[i + 1] = "-")
              /\ slug_str[1] # "-"
              /\ slug_str[Len(slug_str)] # "-"
        /\ slug_str = <<"-">> <=>
               \A i \in 1..Len(tag_str) : Lower(tag_str[i]) \notin SlugAlnum

\* a tag_str with an upper-case letter, a run of two other characters inside and
\* a hyphen at the end has been normalized
C17_Witness ==
    /\ spc = "returned"
    /\ tag_str = <<"A", "+", " ", "-">>
    /\ slug_str = <<"a">>

\* the directory of a post under the output root
PagePath(post) == IF post.draft THEN <<"draft", post.dir>> ELSE post.url

\* a post's page and comments feed were given to write_and_record
Published(post) ==
    /\ \E i \in 1..Len(handed) :
          /\ handed[i].path = PagePath(post) \o <<"index.html">>
          /\ handed[i].bytes[1] = "post" /\ handed[i].bytes[2] = post.dir
    /\ \E i \in 1..Len(handed) :
          /\ handed[i].path = PagePath(post) \o <<"comments.atom">>
          /\ handed[i].bytes = <<"comments", post.dir>>

\* the files that list posts by chunk, by feed or by tag
ListingFiles ==
    {f \in DOMAIN files :
        f \in {<<"index.html">>, <<"posts.atom">>} \/ f[1] \in {"archive", "tag"}}

\* the file names the post among what it lists
Names(f, post) == \E k \in 1..Len(files[f].bytes) : files[f].bytes[k] = post.dir

\* C18: after a completed run every loaded post, drafts and unlisted posts
\* included, had its page and its comments feed produced at its path, and a
\* post that is a draft or unlisted is named on no chunk page (index.html,
\* archive pages), not in the main feed and on no tag page
C18_PublishedNotPaginated ==
    pc = "done" =>
        \A i \in 1..Len(listing) :
            /\ Published(listing[i])
            /\ (listing[i].draft \/ listing[i].unlisted) =>
                   \A f \in ListingFiles : ~Names(f, listing[i])

\* a run completed over an unlisted post and public posts enough for a tag
\* page had the unlisted post been counted
C18_Witness ==
    /\ pc = "done"
    /\ Len(listing) = 2
    /\ listing[1].unlisted
    /\ PagePath(listing[1]) \o <<"index.html">> \in DOMAIN files
    /\ <<"index.html">> \in DOMAIN files

\* the paths given to write_and_record so far in this run
HandedPaths == {handed[i].path : i \in 1..Len(handed)}

\* the attachments of this run's posts that are hard-linked
LinkedPaths ==
    LET plan == Plan(listing, archive_id_secret)
    IN  {plan[i].path : i \in {j \in 1..Len(plan) : plan[j].op = "link"}}

\* C19: every path given to a call of write_and_record that has returned is
\* in paths_written, whether the file was created, rewritten or left alone;
\* the prune of the same run removes none of these files and no hard-linked
\* attachment
C19_KeptRegardlessOfWrite ==
    /\ pc \in {"write", "prune", "rmdirs", "done"} =>
          HandedPaths \subseteq paths_written
    /\ pc \in {"prune", "rmdirs", "done"} =>
          /\ deleted \cap (HandedPaths \cup LinkedPaths) = {}
          /\ HandedPaths \cup LinkedPaths \subseteq DOMAIN files

\* a run completed in which one file was left alone, one rewritten and one
\* created, with a hard-linked attachment
C19_Witness ==
    /\ pc = "done"
    /\ LinkedPaths # {}
    /\ \E p \in HandedPaths : \A j \in 1..Len(writes) : writes[j] # p
    /\ \E j \in 1..Len(writes) : writes[j] \in existing_paths
    /\ \E j \in 1..Len(writes) : writes[j] \notin existing_paths

\* the run is past the tag-collection pass and has not yet written a file
TagsCollected == pc = "write" /\ handed = <<>>

\* tag_slugs_to_posts_desc as the tag-collection pass of this run leaves it
TagGroups == TagSlugsToPostsDesc(SortedDesc(listing), <<>>)

\* C20: after the tag-collection pass there is one group for each slug that
\* some listed post carries; the group holds exactly the listed posts with a
\* tag normalizing to the slug, each once, newest first; tag_slugs_for_post
\* returns the slugs of a post without duplicates in ascending order
C20_TagGroupContents ==
    TagsCollected =>
        /\ {TagGroups[g].slug : g \in 1..Len(TagGroups)} =
               UNION {SlugsOf(listing[i]) : i \in Listed}
        /\ \A g, h \in 1..Len(TagGroups) :
              g # h => TagGroups[g].slug # TagGroups[h].slug
        /\ \A g \in 1..Len(TagGroups) :
              LET posts == TagGroups[g].posts
              IN  /\ {posts[k] : k \in 1..Len(posts)} =
                         {listing[i] : i \in Members(TagGroups[g].slug)}
                  /\ Len(posts) = Cardinality(Members(TagGroups[g].slug))
                  /\ \A a, b \in 1..Len(posts) :
                        a < b => posts[a].date > posts[b].date
        /\ \A i \in 1..Len(listing) :
              LET slugs == tag_slugs_for_post(listing[i])
              IN  /\ {slugs[k] : k \in 1..Len(slugs)} = SlugsOf(listing[i])
                  /\ \A a, b \in 1..Len(slugs) :
                        a < b => SlugLess(slugs[a], slugs[b])

\* the pass has run over three listed posts with slug a, one of which has
\* two tags normalizing to a, and slugs that only this post carries
C20_Witness ==
    /\ TagsCollected
    /\ Cardinality(Members(<<"a">>)) = 3
    /\ Len(listing[1].tags) = 4
    /\ Cardinality(SlugsOf(listing[1])) = 3
    /\ Cardinality(Members(<<"-">>)) = 1

\* the files a completed run over the current posts ends with: the artifact
\* paths of the run, each with the bytes computed for it
ConvergedFiles ==
    LET plan == Plan(listing, archive_id_secret)
    IN  [f \in ArtifactPaths(plan) |-> ComputedBytes(plan, f)]

\* C21: a run that completes ends with the same paths and the same contents
\* whether or not runs before it over the same posts were interrupted: the
\* files are those computed from the posts and the directories those that
\* hold them, so the run after an interruption ends where an uninterrupted
\* run from the original tree ends
C21_CrashThenRerunConverges ==
    pc = "done" =>
        /\ [f \in DOMAIN files |-> files[f].bytes] = ConvergedFiles
        /\ dirs = {<<>>} \cup UNION {Prefixes(Parent(f)) : f \in DOMAIN files}

\* a run was interrupted after it had written some files, and the run after
\* it found these written, wrote the others, removed stale files and
\* completed
C21_Witness ==
    /\ pc = "done" /\ crashed /\ ~prev.valid
    /\ \E p \in HandedPaths : \A j \in 1..Len(writes) : writes[j] # p
    /\ writes # <<>>
    /\ deleted # {}

\* the step is a call of write_and_record on a path that cannot be read (it
\* is a directory) or cannot be created (its directory is missing)
WriteCallFails ==
    /\ pc = "write" /\ todo # <<>> /\ Head(todo).op = "write"
    /\ Head(todo).path \in dirs \/ Parent(Head(todo).path) \notin dirs

\* the run has stopped in a call of write_and_record
WriteAborted ==
    /\ pc = "aborted" /\ handed # <<>>
    /\ handed[Len(handed)].path \in dirs
          \/ Parent(handed[Len(handed)].path) \notin dirs

\* C22: a call of write_and_record that fails changes nothing and stops the
\* run at that artifact, which was tried once; no file or directory was
\* removed, the artifacts handed over before it hold their new bytes, and
\* the stopped run does nothing more to the tree
C22_IOFailureAborts ==
    [][/\ WriteCallFails =>
             /\ pc' = "aborted"
             /\ files' = files /\ dirs' = dirs
             /\ todo' = todo
       /\ WriteAborted =>
             LET n == Len(handed)
             IN  /\ Head(todo).op = "write"
                 /\ Head(todo).path = handed[n].path
                 /\ \A i \in 1..(n - 1) : handed[i].path # handed[n].path
                 /\ deleted = {} /\ removed_dirs = {}
                 /\ \A i \in 1..(n - 1) :
                       (\A j \in (i + 1)..(n - 1) :
                            handed[j].path # handed[i].path) =>
                           /\ handed[i].path \in DOMAIN files
                           /\ files[handed[i].path].bytes = handed[i].bytes
                 /\ \A j \in 1..Len(writes) :
                       \E i \in 1..(n - 1) : handed[i].path = writes[j]
                 /\ files' = files /\ dirs' = dirs
                 /\ pc' \in {"idle", "write", "aborted"}]_vars

\* a run stopped at posts.atom, which is a directory, after it had written
\* other artifacts; the stale file it found is still there
C22_Witness ==
    /\ WriteAborted
    /\ handed[Len(handed)].path = <<"posts.atom">>
    /\ writes # <<>>
    /\ <<"old.html">> \in DOMAIN files

\* the path of the archive page of the chunk with the given index
ArchivePagePath(n) ==
    <<"archive", archive_id_from_index(n, archive_id_secret) \o ".html">>

\* the link of the archive page of the chunk with the given index
ArchivePageUrl(n) ==
    "/blog/archive/" \o archive_id_from_index(n, archive_id_secret) \o ".html"

\* the older and the newer link rendered on a multipost page
OlderLink(bytes) == bytes[Len(bytes) - 2]
NewerLink(bytes) == bytes[Len(bytes)]

\* C23 as stated: the archive page of every chunk newer than the oldest
\* chunk has the root index as its newer link
C23_NewerLinkToRoot ==
    pc = "done" =>
        \A n \in 2..(Len(PublicChunks) - 1) :
            NewerLink(files[ArchivePagePath(n)].bytes) = "/blog/"

\* C23 amended: only the newest archive page, that of index k - 1, has the
\* root index as its newer link; the page of every other index n has the
\* archive page of index n + 1
C23_NewerLinkBoundary ==
    pc = "done" =>
        LET k == Len(PublicChunks)
        IN  \A n \in 1..(k - 1) :
                NewerLink(files[ArchivePagePath(n)].bytes) =
                    IF n = k - 1 THEN "/blog/" ELSE ArchivePageUrl(n + 1)

\* a run completed with four chunks, so that the archive page of index 2 is
\* neither the oldest nor the newest
C23_Witness ==
    /\ pc = "done"
    /\ Len(PublicChunks) = 4
    /\ ArchivePagePath(2) \in DOMAIN files
    /\ NewerLink(files[ArchivePagePath(2)].bytes) = ArchivePageUrl(3)

\* the multipost pages written in the run: the root index and the archive
\* pages
NavPaths ==
    {f \in paths_written : f = <<"index.html">> \/ f[1] = "archive"}

\* the link under which a multipost page is reached
UrlOf(path) ==
    IF path = <<"index.html">> THEN "/blog/" ELSE "/blog/archive/" \o path[2]

\* the pages reached from a page by following the older link again and
\* again, at most fuel times
RECURSIVE OlderWalk(_, _)
OlderWalk(path, fuel) ==
    LET older == OlderLink(files[path].bytes)
        hits == {q \in NavPaths : UrlOf(q) = older}
    IN  IF fuel = 0 \/ older = None \/ hits = {} THEN <<>>
        ELSE LET q == CHOOSE q \in hits : TRUE
             IN  <<q>> \o OlderWalk(q, fuel - 1)

\* C24: after a completed run with k >= 1 chunks the older links lead from
\* the index page through the archive pages of indexes k-1, ..., 1, each
\* once, and end there; every older or newer link targets the root index or
\* an archive page written in the run; the newer link of a page is the
\* inverse of the older link that leads to it
C24_ArchiveNavigationChain ==
    (pc = "done" /\ Len(PublicChunks) >= 1) =>
        LET k == Len(PublicChunks)
            last == IF k = 1 THEN <<"index.html">> ELSE ArchivePagePath(1)
        IN  /\ <<"index.html">> \in NavPaths
            /\ OlderWalk(<<"index.html">>, k + 1) =
                   [i \in 1..(k - 1) |-> ArchivePagePath(k - i)]
            /\ \A m, n \in 1..(k - 1) :
                   m # n => ArchivePagePath(m) # ArchivePagePath(n)
            /\ last \in NavPaths /\ OlderLink(files[last].bytes) = None
            /\ \A p \in NavPaths :
                   \A link \in {OlderLink(files[p].bytes),
                                 NewerLink(files[p].bytes)} :
                       link # None => \E q \in NavPaths : UrlOf(q) = link
            /\ \A p, q \in NavPaths :
                   OlderLink(files[p].bytes) = UrlOf(q)
                       => NewerLink(files[q].bytes) = UrlOf(p)

\* a run completed with four chunks: the walk from the index page passes
\* three archive pages
C24_Witness ==
    /\ pc = "done"
    /\ Len(PublicChunks) = 4
    /\ Len(OlderWalk(<<"index.html">>, 5)) = 3
    /\ OlderWalk(<<"index.html">>, 5)[3] = ArchivePagePath(1)

\* the post pages given to write_and_record in this run
PostPages == {h \in 1..Len(handed) : handed[h].bytes[1] = "post"}

\* the post a post page was rendered from
PostOf(h) ==
    listing[CHOOSE i \in 1..Len(listing) : listing[i].dir = handed[h].bytes[2]]

\* the tag page of the slug was written in this run and is in the tree
TagPageProduced(slug) ==
    /\ TagPagePath(slug) \in paths_written
    /\ TagPagePath(slug) \in DOMAIN files

\* C25: in a completed run every post page, of a listed, unlisted or draft
\* post alike, shows a tag as the link /blog/tag/<slug>/ exactly when the
\* tag page of that slug is produced in the run, and as plain text otherwise
C25_NoDanglingTagLinks ==
    pc = "done" =>
        \A h \in PostPages :
            \A t \in 1..Len(PostOf(h).tags) :
                LET tag == PostOf(h).tags[t]
                    slug == tag_to_slug(tag)
                    shown == handed[h].bytes[2 + t]
                IN  /\ shown = "href:/blog/tag/" \o Str(slug) \o "/"
                        <=> TagPageProduced(slug)
                    /\ shown = "text:" \o Str(tag)
                        <=> ~TagPageProduced(slug)

\* a completed run with a post page that shows one tag as a link to the
\* produced page of its slug and another tag, whose slug has no page, as text
C25_Witness ==
    /\ pc = "done"
    /\ \E h \in PostPages :
           \E t, u \in 1..Len(PostOf(h).tags) :
               /\ TagPageProduced(tag_to_slug(PostOf(h).tags[t]))
               /\ handed[h].bytes[2 + t] = "href:/blog/tag/a/"
               /\ ~TagPageProduced(tag_to_slug(PostOf(h).tags[u]))
               /\ handed[h].bytes[2 + u] = "text:" \o Str(PostOf(h).tags[u])

\* C26: once the writes of a run are over, the root index.html has been
\* written and stays in the tree, so that os.removedirs, which climbs from an
\* empty directory until a directory has entries, stops below the output
\* root: the root is never removed, and with it no directory above it
C26_PruneStaysInsideRoot ==
    pc \in {"prune", "rmdirs", "done"} =>
        /\ <<"index.html">> \in paths_written
        /\ <<"index.html">> \in DOMAIN files
        /\ <<>> \in dirs
        /\ <<>> \notin removed_dirs

\* a run without posts completed in which os.removedirs climbed from
\* tag/gone/ through tag/ and stopped at the output root
C26_Witness ==
    /\ pc = "done"
    /\ listing = <<>>
    /\ <<"tag", "gone">> \in removed_dirs
    /\ <<"tag">> \in removed_dirs
    /\ <<>> \in dirs
    /\ \A f \in DOMAIN files : Len(f) = 1

\* C27: every iteration of the loop of chunk_stable lowers remaining by at
\* least 1 and not below 0, the iterations made, one per chunk, and the items
\* still remaining never exceed len(items), and every call returns
C27_ChunkStableTerminates ==
    /\ [][(cpc = "loop" /\ cpc' = "loop")
              => (remaining' < remaining /\ remaining' >= 0
                  /\ Len(chunks') = Len(chunks) + 1)]_vars
    /\ [](cpc \in {"loop", "done"} => Len(chunks) + remaining <= Len(items))
    /\ (cpc = "loop") ~> (cpc = "done")

\* a call returned after as many iterations as the list has items
C27_Witness ==
    /\ cpc = "done"
    /\ chunk_size = 1
    /\ min_size = 0
    /\ Len(items) = MaxItems
    /\ Len(chunks) = Len(items)

====
